---------------------------- MODULE Spec2Model ----------------------------
(***************************************************************************)
(* Combat engine of "Super Animal Fighting Explorer": Creature             *)
(* (src/creature.py) and Battle (src/battle.py).                           *)
(*                                                                         *)
(* Conventions of the model                                                *)
(*   - target_index, popup slots and alive-view positions are 0-based as   *)
(*     in the Python code; TLA+ sequences are 1-based, hence the "+ 1".    *)
(*   - frame times are whole tenths of a second; the lifetime of a popup   *)
(*     is the binary64 float the code computes (0.9 - dt - dt ...), and    *)
(*     the popup drift 20 px/s is 2 px per tenth.                          *)
(*   - the layout is the one of the default screen_size (1024, 768), for   *)
(*     which the scale factor of _compute_layout is exactly 1.             *)
(*   - a formatted message f"..." is the sequence of its literal pieces    *)
(*     and its interpolated values.                                        *)
(*   - random.randint / random.choice are nondeterministic choices.        *)
(*   - player .. raised are the fields of a Battle (raised: an exception   *)
(*     has left a handler); game holds the fields of Game that the combat  *)
(*     touches; unit is a Creature exercised on its own, with the last     *)
(*     method called on it.                                                *)
(***************************************************************************)
EXTENDS Integers, Sequences, FiniteSets

VARIABLES player, enemies, outcome, target_index, message, popups,
          enemy_positions, raised, game, unit

vars == <<player, enemies, outcome, target_index, message, popups,
          enemy_positions, raised, game, unit>>

(***************************************************************************)
(* Bounds of the model.                                                    *)
(***************************************************************************)
\* opponents are built at levels 1..MaxLevel
MaxLevel == 2
\* at most MaxPopups feedback events are pending at once
MaxPopups == 4
\* update(dt) is called with dt = DtStep, 2*DtStep, .. MaxDtSteps*DtStep tenths
MaxDtSteps == 2
\* length of one dt step, in tenths of a second
DtStep == 5
\* in the frame-by-frame specification update(dt) is called with
\* dt = 1 .. MaxFrameTenths tenths
MaxFrameTenths == 1
\* a creature exercised on its own has a level in 1 .. MaxUnitLevel
MaxUnitLevel == 2
\* ... takes damage amounts in 0 .. MaxHit (or its whole max_health at once)
MaxHit == 2
\* ... and no further damage once MaxHits * MaxHit below its max_health
MaxHits == 2
\* the game starts no battle once the player has reached MaxGameLevel
MaxGameLevel == 3
\* with the game's own stat tuning the player has a level in 1 .. MaxTunedLevel
MaxTunedLevel == 4

\* number of opponents of an encounter: random.randint(1, 3)
MaxEnemies == 3
\* level of a new player creature: Creature(element, level=1)
PlayerLevel == 1

\* Small-number analogue of PLAYER_STATS / ENEMY_STATS (the configuration is
\* supplied by the host; the engine only applies it).
PlayerStats ==
    [base_hp |-> 2, hp_per_level |-> 1, base_dmg_min |-> 0,
     base_dmg_max |-> 1, dmg_per_level |-> 1]
EnemyStats ==
    [base_hp |-> 7, hp_per_level |-> 1, base_dmg_min |-> 0,
     base_dmg_max |-> 1, dmg_per_level |-> 1]

Max(a, b) == IF a >= b THEN a ELSE b
Min(a, b) == IF a <= b THEN a ELSE b

(***************************************************************************)
(* Python floats (IEEE 754 binary64) around the popup lifetime.  A float x *)
(* is the record [tenths |-> n, ulps |-> d] with x = (n + d / 2^60) / 10   *)
(* seconds: n tenths of a second is the decimal value the float stands     *)
(* for, d its distance from it in units of 2^-60 tenths.  Every float the  *)
(* engine computes from 0.9 and frame times of whole tenths has this form. *)
(***************************************************************************)
\* 2^e modulo m for m < 46341, computed without leaving the 32-bit integers
RECURSIVE Pow2Mod(_, _)
Pow2Mod(e, m) ==
    IF e <= 15 THEN (2 ^ e) % m
    ELSE (((2 ^ 15) % m) * Pow2Mod(e - 15, m)) % m

Pow2(e) == 2 ^ e

\* whether (n + d / 2^60) / 10 >= 2^-j, for n >= 1 and |d| < 2^59
at_least_pow2(n, d, j) ==
    IF j >= 0
    THEN n * Pow2(j) > 10 \/ (n * Pow2(j) = 10 /\ d >= 0)
    ELSE n > 10 * Pow2(-j) \/ (n = 10 * Pow2(-j) /\ d >= 0)

\* the j with 2^-j <= x < 2^-(j-1): the binade of x
binade(n, d) ==
    CHOOSE j \in -3 .. 8 : at_least_pow2(n, d, j) /\ ~at_least_pow2(n, d, j - 1)

\* the spacing of the floats of that binade, 2^-(j+52) s, in units of 2^-60
\* tenths
spacing(n, d) == 10 * Pow2(8 - binade(n, d))

\* round-to-nearest, ties-to-even, of the positive real (n + d / 2^60) / 10
round_to(n, d, g, q) ==
    IF 2 * (q % g) < g THEN [tenths |-> n, ulps |-> d - (q % g)]
    ELSE IF 2 * (q % g) > g THEN [tenths |-> n, ulps |-> d + g - (q % g)]
    ELSE IF q \div g = 0 THEN [tenths |-> n, ulps |-> d - (q % g)]
    ELSE [tenths |-> n, ulps |-> d + g - (q % g)]

\* with g the spacing of the floats around the real, the remainder q of the
\* real modulo 2g tells its distance q % g above a float and whether that
\* float has an even significand
round_within(n, d, g) ==
    round_to(n, d, g, (n * Pow2Mod(60, 2 * g) + d) % (2 * g))

round_binary64(n, d) == round_within(n, d, spacing(n, d))

\* the floats of k / 10 for the frame times and the lifetime of the model,
\* computed once
FrameFloats ==
    [k \in 1 .. 9 + MaxDtSteps * DtStep + MaxFrameTenths |->
        round_binary64(k, 0)]

\* the float of the quotient ms / 1000.0 for a frame time of k tenths, and of
\* the literal 0.9
float_of_tenths(k) == FrameFloats[k]

\* x - y in float arithmetic, for y > 0.  A difference of two floats that
\* stand for the same decimal value is exact.
float_sub(x, y) ==
    LET n == x.tenths - y.tenths
        d == x.ulps - y.ulps
    IN  IF n = 0 THEN [tenths |-> 0, ulps |-> d]
        ELSE IF n > 0 THEN round_binary64(n, d)
        ELSE LET m == round_binary64(-n, -d)
             IN  [tenths |-> -m.tenths, ulps |-> -m.ulps]

\* x <= 0
float_le_zero(x) == x.tenths < 0 \/ (x.tenths = 0 /\ x.ulps <= 0)

\* POPUP_DURATION = 0.9
POPUP_DURATION == float_of_tenths(9)

(***************************************************************************)
(* Python floats around the damage formulas.  Here a float x is the record *)
(* [hundredths |-> n, ulps |-> d] with x = (n + d / 2^52) / 100: n         *)
(* hundredths is the decimal value the float stands for, d its distance    *)
(* from it in units of 2^-52 hundredths.  The floats are >= 1 and < 256.   *)
(***************************************************************************)
\* whether (n + d / 2^52) / 100 >= 2^e
reaches_pow2(n, d, e) ==
    n > 100 * Pow2(e) \/ (n = 100 * Pow2(e) /\ d >= 0)

\* the e with 2^e <= x < 2^(e+1)
exponent(n, d) ==
    CHOOSE e \in 0 .. 7 : reaches_pow2(n, d, e) /\ ~reaches_pow2(n, d, e + 1)

\* round-to-nearest, ties-to-even, on the floats of spacing g (in units of
\* 2^-52 hundredths)
round_on(n, d, g) ==
    [hundredths |-> n,
     ulps |-> round_to(n, d, g, (n * Pow2Mod(52, 2 * g) + d) % (2 * g)).ulps]

round_hundredths(n, d) == round_on(n, d, 100 * Pow2(exponent(n, d)))

\* the float of a literal such as 1.35, 1.25 or 1.15
float_of_hundredths(k) == round_hundredths(k, 0)

\* k * y for an int k >= 0 and a float y: k is converted exactly, the product
\* is rounded
float_times(k, y) ==
    IF k = 0 THEN [hundredths |-> 0, ulps |-> 0]
    ELSE round_hundredths(k * y.hundredths, k * y.ulps)

\* x + k for a float x >= 0 and an int k >= 1
float_plus(x, k) == round_hundredths(x.hundredths + 100 * k, x.ulps)

\* mutant: the float is rounded to the nearest integer
nearest_int_of_float(x) == (x.hundredths + 50) \div 100

\* int(x) for a float x >= 0: truncation
int_of_float(x) ==
    IF x.hundredths % 100 = 0 /\ x.ulps < 0
    THEN x.hundredths \div 100 - 1
    ELSE x.hundredths \div 100

(***************************************************************************)
(* Creature (src/creature.py)                                              *)
(***************************************************************************)
\* mutant: a creature is built with two special uses
NewCreature_with_two_specials(element, level) ==
    [element |-> element, level |-> level,
     max_health |-> 1, current_health |-> 1,
     damage_min |-> 1, damage_max |-> 1,
     max_special_uses |-> 2, special_uses |-> 2]

NewCreature(element, level) ==
    [element |-> element, level |-> level,
     max_health |-> 1, current_health |-> 1,
     damage_min |-> 1, damage_max |-> 1,
     max_special_uses |-> 1, special_uses |-> 1]

\* mutant: a creature below its new max_health keeps its health
configure_stats_keeping_health(c, cfg) ==
    [c EXCEPT !.max_health = cfg.base_hp + c.level * cfg.hp_per_level,
              !.current_health =
                  IF c.current_health < cfg.base_hp + c.level * cfg.hp_per_level
                  THEN c.current_health
                  ELSE cfg.base_hp + c.level * cfg.hp_per_level,
              !.damage_min = cfg.base_dmg_min + c.level * cfg.dmg_per_level,
              !.damage_max = cfg.base_dmg_max + c.level * cfg.dmg_per_level]

configure_stats(c, cfg) ==
    [c EXCEPT !.max_health = cfg.base_hp + c.level * cfg.hp_per_level,
              !.current_health = cfg.base_hp + c.level * cfg.hp_per_level,
              !.damage_min = cfg.base_dmg_min + c.level * cfg.dmg_per_level,
              !.damage_max = cfg.base_dmg_max + c.level * cfg.dmg_per_level]

\* mutant: a roll can be 0
roll_damage_from_zero(c) == 0 .. c.damage_max

\* the values random.randint(damage_min, damage_max) can return
roll_damage(c) == c.damage_min .. c.damage_max

\* mutant: the constant 6 is not added
special_of_without_bonus(base) ==
    int_of_float(float_times(base, float_of_hundredths(135)))

\* int(base * 1.35 + 6) for a basic roll base >= 0
special_of(base) ==
    int_of_float(float_plus(float_times(base, float_of_hundredths(135)), 6))

\* the values roll_special_damage can return
roll_special_damage(c) == { special_of(base) : base \in roll_damage(c) }

\* mutant: the health stops at zero
take_damage_floored(c, amount) ==
    [c EXCEPT !.current_health = Max(0, c.current_health - amount)]

\* mutant: the amount is added to the health
take_damage_as_heal(c, amount) ==
    [c EXCEPT !.current_health = c.current_health + amount]

take_damage(c, amount) ==
    [c EXCEPT !.current_health = c.current_health - amount]

\* mutant: a creature at exactly 0 health still counts as standing
is_defeated_below_zero(c) == c.current_health < 0

is_defeated(c) == c.current_health <= 0

level_up(c) == [c EXCEPT !.level = c.level + 1]

\* mutant: only the special uses are restored
reset_special_only(c) == [c EXCEPT !.special_uses = c.max_special_uses]

reset_after_battle(c) ==
    [c EXCEPT !.current_health = c.max_health,
              !.special_uses = c.max_special_uses]

(***************************************************************************)
(* Battle: layout (src/battle.py, _compute_layout)                         *)
(***************************************************************************)
screen_width == 1024
screen_height == 768
sprite_size == 180
margin_x == 120
pad == 24

\* int(screen_height * 0.23)
row_y == (screen_height * 23) \div 100
left_pos == <<margin_x, row_y>>

\* a pygame.Rect as <<x, y, w, h>>
button_w == 220
button_h == 56
button_y == (screen_height * 80) \div 100
attack_rect ==
    <<(screen_width * 35) \div 100 - button_w \div 2, button_y, button_w, button_h>>
special_rect ==
    <<(screen_width * 65) \div 100 - button_w \div 2, button_y, button_w, button_h>>

collidepoint(rect, p) ==
    /\ rect[1] <= p[1] /\ p[1] < rect[1] + rect[3]
    /\ rect[2] <= p[2] /\ p[2] < rect[2] + rect[4]

COLOR_ENEMY_HIT == <<255, 180, 120>>
COLOR_PLAYER_HIT == <<255, 120, 120>>

(***************************************************************************)
(* Battle: alive view                                                      *)
(***************************************************************************)
_alive_enemies(es) == SelectSeq(es, LAMBDA e : ~is_defeated(e))

\* mutant: the target is looked up in the full opponent list
_all_indices(es) == [i \in 1 .. Len(es) |-> i]

\* 1-based positions, in es, of the creatures of the alive view
_alive_indices(es) ==
    LET F[i \in 0 .. Len(es)] ==
            IF i = 0 THEN << >>
            ELSE IF is_defeated(es[i]) THEN F[i - 1] ELSE Append(F[i - 1], i)
    IN  F[Len(es)]

positions_for(count) ==
    LET total_w == count * sprite_size + (count - 1) * pad
        start_x == screen_width - margin_x - total_w
    IN  [i \in 1 .. count |-> <<start_x + (i - 1) * (sprite_size + pad), row_y>>]

\* mutant: one position for every opponent, defeated or not
_recompute_positions_of_all(es) ==
    positions_for(Max(1, Len(es)))

_recompute_enemy_positions(es) ==
    positions_for(Max(1, Len(_alive_enemies(es))))

_build_intro_message(es) ==
    IF Len(es) = 0 THEN <<"An eerie silence fills the battlefield...">>
    ELSE IF Len(es) = 1 THEN <<"A wild ", es[1].element, " creature appears!">>
    ELSE <<Len(es), " enemies appear!">>

new_popup(damage, pos, color) ==
    [text |-> <<"-", damage>>, pos |-> pos, color |-> color,
     time_left |-> POPUP_DURATION]

\* mutant: the new event is put in front of the list
_add_popup_in_front(ps, damage, pos, color) ==
    <<new_popup(damage, pos, color)>> \o ps

_add_popup(ps, damage, pos, color) == Append(ps, new_popup(damage, pos, color))

popup_anchor(pos) == <<pos[1] + 60, pos[2] - 10>>

\* mutant: the hit on an opponent is tagged with the counterattack colour
hit_popup_as_counter(ps, damage, slot_pos) ==
    _add_popup(ps, damage, popup_anchor(slot_pos), COLOR_PLAYER_HIT)

\* the feedback event of a hit on the opponent drawn at slot_pos
hit_popup(ps, damage, slot_pos) ==
    _add_popup(ps, damage, popup_anchor(slot_pos), COLOR_ENEMY_HIT)

\* the feedback event of a counterattack, near the player
counter_popup(ps, enemy_damage) ==
    _add_popup(ps, enemy_damage, popup_anchor(left_pos), COLOR_PLAYER_HIT)

\* mutant: the target moves to the last position of the alive view
clamp_target_to_last(ti, es) == Max(0, Len(_alive_enemies(es)) - 1)

clamp_target(ti, es) == Max(0, Min(ti, Len(_alive_enemies(es)) - 1))

(***************************************************************************)
(* Initial state: Battle.__init__ on a stat-configured player and a        *)
(* non-empty list of stat-configured opponents.                            *)
(***************************************************************************)
\* no creature: self.player = None
NoCreature ==
    [element |-> "None", level |-> 0,
     max_health |-> 0, current_health |-> 0,
     damage_min |-> 0, damage_max |-> 0,
     max_special_uses |-> 0, special_uses |-> 0]

NoCfg ==
    [base_hp |-> 0, hp_per_level |-> 0, base_dmg_min |-> 0,
     base_dmg_max |-> 0, dmg_per_level |-> 0]

\* the engine driven without the Game around it, and no creature exercised
\* on its own
NoGame ==
    [state |-> "NONE", battles_won |-> 0, last_battle_was_boss |-> FALSE,
     battle |-> FALSE]
NoUnit ==
    [self |-> NoCreature, method |-> "none", before |-> NoCreature,
     cfg |-> NoCfg, amount |-> 0, result |-> 0]

Players ==
    { configure_stats(NewCreature(el, PlayerLevel), PlayerStats) : el \in {"fire"} }
Opponents ==
    { configure_stats(NewCreature("enemy", l), EnemyStats) : l \in 1 .. MaxLevel }

Init ==
    /\ player \in Players
    /\ enemies \in UNION { [1 .. n -> Opponents] : n \in 1 .. MaxEnemies }
    /\ outcome = "None"
    /\ target_index = 0
    /\ message = _build_intro_message(enemies)
    /\ popups = << >>
    /\ enemy_positions = _recompute_enemy_positions(enemies)
    /\ raised = FALSE
    /\ game = NoGame
    /\ unit = NoUnit


(***************************************************************************)
(* Battle._player_attack                                                   *)
(***************************************************************************)
\* mutant: the counterattacker is drawn from all opponents, defeated or not
counter_from_any_opponent(es) == 1 .. Len(es)

\* the opponents random.choice(self._alive_enemies()) can return (1-based
\* positions in es)
counter_candidates(es) == { i \in 1 .. Len(es) : ~is_defeated(es[i]) }

\* mutant: the defeat test reads the player before the counter damage
player_lost_before_damage(before, after) == is_defeated(before)

\* lines 230 and 277: the defeat test, on the player after the counter damage
player_lost(before, after) == is_defeated(after)

\* Lines 220-233 and 265-279: one counterattack on the player pl by one alive
\* opponent of es; head is the message up to the counter damage.
counterattack(pl, es, ps, ti, positions, head) ==
    \E c \in counter_candidates(es) :
      \E enemy_damage \in roll_damage(es[c]) :
        LET pl2 == take_damage(pl, enemy_damage)
        IN  /\ player' = pl2
            /\ enemies' = es
            /\ target_index' = ti
            /\ enemy_positions' = positions
            /\ popups' = counter_popup(ps, enemy_damage)
            /\ IF player_lost(pl, pl2)
               THEN /\ outcome' = "LOSE"
                    /\ message' = <<"You have been defeated!">>
               ELSE /\ outcome' = outcome
                    /\ message' = head \o <<enemy_damage, ".">>
            /\ raised' = raised

\* mutant: the win is declared once the first opponent is defeated
first_defeated(es) == is_defeated(es[1])

\* whether the outcome check that follows the player's damage declares the win
all_defeated(es) == _alive_enemies(es) = << >>

\* mutant: the loop leaves at the first target that dies (a death check
\* inside the loop)
area_loop_until_death(es0, ps0, alive_idx, positions, dmg) ==
    LET G[k \in 0 .. Len(alive_idx)] ==
            IF k = 0
            THEN [es |-> es0, ps |-> ps0, total |-> 0, err |-> FALSE]
            ELSE LET prev == G[k - 1]
                 IN  IF k > 1 /\ prev.es[alive_idx[k - 1]].current_health <= 0
                     THEN prev
                     ELSE [es |-> [prev.es EXCEPT ![alive_idx[k]] =
                                      [@ EXCEPT !.current_health = @ - dmg[k]]],
                           ps |-> Append(prev.ps,
                                         [text |-> <<"-", dmg[k]>>,
                                          pos |-> <<positions[k][1] + 60,
                                                    positions[k][2] - 10>>,
                                          color |-> COLOR_ENEMY_HIT,
                                          time_left |-> POPUP_DURATION]),
                           total |-> prev.total + dmg[k], err |-> FALSE]
    IN  G[Len(alive_idx)]

\* Lines 202-211: the loop over the snapshot alive_idx of the alive view, with
\* dmg[k] the special damage rolled for the k-th target.  err is set when
\* enemy_positions[idx] is out of range (IndexError leaves the loop).
area_loop(es0, ps0, alive_idx, positions, dmg) ==
    LET F[k \in 0 .. Len(alive_idx)] ==
            IF k = 0
            THEN [es |-> es0, ps |-> ps0, total |-> 0, err |-> FALSE]
            ELSE LET prev == F[k - 1]
                     es1 == [prev.es EXCEPT
                                ![alive_idx[k]] = take_damage(@, dmg[k])]
                 IN  IF prev.err THEN prev
                     ELSE IF k > Len(positions)
                     THEN [es |-> es1, ps |-> prev.ps,
                           total |-> prev.total + dmg[k], err |-> TRUE]
                     ELSE [es |-> es1,
                           ps |-> hit_popup(prev.ps, dmg[k], positions[k]),
                           total |-> prev.total + dmg[k], err |-> FALSE]
    IN  F[Len(alive_idx)]

\* mutant: the special attack is free
keep_special(pl) == pl

spend_special(pl) == [pl EXCEPT !.special_uses = pl.special_uses - 1]

\* Lines 198-233: special attack with more than one opponent alive.
area_special ==
    LET alive_idx == _alive_indices(enemies)
        pl1 == spend_special(player)
    IN  \E dmg \in [1 .. Len(alive_idx) -> roll_special_damage(player)] :
          LET r == area_loop(enemies, popups, alive_idx, enemy_positions, dmg)
          IN  IF r.err
              THEN /\ raised' = TRUE
                   /\ player' = pl1
                   /\ enemies' = r.es
                   /\ popups' = r.ps
                   /\ UNCHANGED <<outcome, target_index, message, enemy_positions>>
              ELSE IF all_defeated(r.es)
              THEN /\ outcome' = "WIN"
                   /\ message' = <<"Enemies defeated!">>
                   /\ player' = pl1
                   /\ enemies' = r.es
                   /\ popups' = r.ps
                   /\ UNCHANGED <<target_index, enemy_positions, raised>>
              ELSE counterattack(pl1, r.es, r.ps,
                                 clamp_target(target_index, r.es),
                                 _recompute_enemy_positions(r.es),
                                 <<"Special hit all enemies for ", r.total,
                                   " total. Enemy hit back for ">>)

\* mutant: target_index is not clamped again after the target died
no_reclamp(ti, es, target_defeated) == ti

\* the target_index left by lines 256-262 once the target has taken its damage
reclamp_after_hit(ti, es, target_defeated) ==
    IF target_defeated THEN clamp_target(ti, es) ELSE ti

\* Lines 235-279: basic attack, or special attack on the only alive opponent.
\* alive is non-empty here, so _get_target clamps target_index and returns
\* the creature at that position of the alive view.
single_attack(use_special) ==
    \E base \in roll_damage(player) :
      LET damage == IF use_special THEN special_of(base) ELSE base
          pl1 == IF use_special THEN spend_special(player) ELSE player
          ti1 == clamp_target(target_index, enemies)
          j == _alive_indices(enemies)[ti1 + 1]
          es1 == [enemies EXCEPT ![j] = take_damage(@, damage)]
          ps1 == hit_popup(popups, damage, enemy_positions[ti1 + 1])
          target_defeated == is_defeated(es1[j])
      IN  IF ti1 >= Len(enemy_positions)
          THEN /\ raised' = TRUE
               /\ player' = pl1
               /\ enemies' = es1
               /\ target_index' = ti1
               /\ UNCHANGED <<outcome, message, popups, enemy_positions>>
          ELSE IF target_defeated /\ all_defeated(es1)
          THEN /\ outcome' = "WIN"
               /\ message' = <<"Enemy defeated!">>
               /\ player' = pl1
               /\ enemies' = es1
               /\ target_index' = ti1
               /\ popups' = ps1
               /\ UNCHANGED <<enemy_positions, raised>>
          ELSE counterattack(pl1, es1, ps1,
                             reclamp_after_hit(ti1, es1, target_defeated),
                             IF target_defeated
                             THEN _recompute_enemy_positions(es1)
                             ELSE enemy_positions,
                             <<"You dealt ", damage, ". Enemy hit back for ">>)

\* mutant: the area branch is taken from one alive opponent on
_player_attack_area_from_one(use_special) ==
    IF use_special /\ player.special_uses <= 0
    THEN UNCHANGED vars
    ELSE IF _alive_enemies(enemies) = << >>
    THEN /\ outcome' = "WIN"
         /\ message' = <<"Enemy defeated!">>
         /\ UNCHANGED <<player, enemies, target_index, popups,
                        enemy_positions, raised>>
    ELSE IF use_special /\ Len(_alive_enemies(enemies)) >= 1
    THEN area_special
    ELSE single_attack(use_special)

_player_attack(use_special) ==
    IF use_special /\ player.special_uses <= 0
    THEN UNCHANGED vars
    ELSE IF _alive_enemies(enemies) = << >>
    THEN /\ outcome' = "WIN"
         /\ message' = <<"Enemy defeated!">>
         /\ UNCHANGED <<player, enemies, target_index, popups,
                        enemy_positions, raised>>
    ELSE IF use_special /\ Len(_alive_enemies(enemies)) > 1
    THEN area_special
    ELSE single_attack(use_special)

(***************************************************************************)
(* Battle.handle_event                                                     *)
(***************************************************************************)
KeyEvent(k) == [type |-> "KEYDOWN", key |-> k, button |-> 0, pos |-> <<0, 0>>]
MouseEvent(b, p) == [type |-> "MOUSEBUTTONDOWN", key |-> "", button |-> b, pos |-> p]

\* mutant: the index of the sprite is counted from 1
_enemy_at_pos_from_one(mouse_pos) ==
    LET n == Min(Len(_alive_enemies(enemies)), Len(enemy_positions))
        hits == { idx \in 0 .. n - 1 :
                    collidepoint(<<enemy_positions[idx + 1][1],
                                   enemy_positions[idx + 1][2],
                                   sprite_size, sprite_size>>, mouse_pos) }
    IN  IF hits = {} THEN -1
        ELSE 1 + CHOOSE idx \in hits : \A other \in hits : idx <= other

\* _enemy_at_pos: the alive-view index (0-based) of the first sprite rectangle
\* holding mouse_pos, or -1 for None.  zip stops at the shorter sequence.
_enemy_at_pos(mouse_pos) ==
    LET n == Min(Len(_alive_enemies(enemies)), Len(enemy_positions))
        hits == { idx \in 0 .. n - 1 :
                    collidepoint(<<enemy_positions[idx + 1][1],
                                   enemy_positions[idx + 1][2],
                                   sprite_size, sprite_size>>, mouse_pos) }
    IN  IF hits = {} THEN -1
        ELSE CHOOSE idx \in hits : \A other \in hits : idx <= other

is_clicked(rect, event) ==
    /\ event.type = "MOUSEBUTTONDOWN"
    /\ event.button = 1
    /\ collidepoint(rect, event.pos)

\* mutants: only a win closes the session; nothing closes the session
resolved_only_by_win == outcome = "WIN"
never_resolved == FALSE

\* line 145: the session is resolved and accepts no further intent
resolved == outcome # "None"

\* mutant: without a special use left the intent falls back to a basic attack
refuse_by_basic_attack == _player_attack(FALSE)

\* lines 167-168 and 185-186
refuse_special ==
    /\ message' = <<"No special uses left!">>
    /\ UNCHANGED <<player, enemies, outcome, target_index, popups,
                   enemy_positions, raised>>

special_or_refuse ==
    IF player.special_uses > 0 THEN _player_attack(TRUE) ELSE refuse_special

\* mutant: the selection stops at the ends of the alive view
next_index_no_wrap(ti, step, n) == Max(0, Min(ti + step, n - 1))

\* lines 152 and 157: (self.target_index + step) % len(alive)
next_index(ti, step, n) == (ti + step) % n

cycle_target(step) ==
    LET alive == _alive_enemies(enemies)
    IN  /\ target_index' = IF alive # << >>
                           THEN next_index(target_index, step, Len(alive))
                           ELSE target_index
        /\ UNCHANGED <<player, enemies, outcome, message, popups,
                       enemy_positions, raised>>

handle_event(event) ==
    IF resolved THEN UNCHANGED vars
    ELSE IF event.type = "KEYDOWN" /\ event.key \in {"K_LEFT", "K_a"}
    THEN cycle_target(-1)
    ELSE IF event.type = "KEYDOWN" /\ event.key \in {"K_RIGHT", "K_d"}
    THEN cycle_target(1)
    ELSE IF event.type = "KEYDOWN" /\ event.key \in {"K_RETURN", "K_SPACE"}
    THEN _player_attack(FALSE)
    ELSE IF event.type = "KEYDOWN" /\ event.key \in {"K_s", "K_x"}
    THEN special_or_refuse
    ELSE IF /\ event.type = "MOUSEBUTTONDOWN" /\ event.button = 1
            /\ _enemy_at_pos(event.pos) # -1
    THEN /\ target_index' = _enemy_at_pos(event.pos)
         /\ UNCHANGED <<player, enemies, outcome, message, popups,
                        enemy_positions, raised>>
    ELSE IF is_clicked(attack_rect, event)
    THEN _player_attack(FALSE)
    ELSE IF is_clicked(special_rect, event)
    THEN special_or_refuse
    ELSE UNCHANGED vars

(***************************************************************************)
(* Battle.update                                                           *)
(***************************************************************************)
\* mutant: the popup drifts but its lifetime is not decreased
aged_in_place(p, dt) == [p EXCEPT !.pos = <<p.pos[1], p.pos[2] - 2 * dt>>]

\* lines 283-284, for a frame time of dt tenths of a second
aged(p, dt) ==
    [p EXCEPT !.time_left = float_sub(p.time_left, float_of_tenths(dt)),
              !.pos = <<p.pos[1], p.pos[2] - 2 * dt>>]

\* line 285
expired(p) == float_le_zero(p.time_left)

\* lines 282-287: the feedback events left by update(dt)
decayed(ps, dt) ==
    SelectSeq([i \in 1 .. Len(ps) |-> aged(ps[i], dt)], LAMBDA p : ~expired(p))

\* mutant: the message is cleared once no feedback event is pending
update_clearing_message(dt) ==
    /\ popups' = decayed(popups, dt)
    /\ message' = IF decayed(popups, dt) = << >> THEN << >> ELSE message
    /\ UNCHANGED <<player, enemies, outcome, target_index,
                   enemy_positions, raised>>

update(dt) ==
    /\ popups' = decayed(popups, dt)
    /\ UNCHANGED <<player, enemies, outcome, target_index, message,
                   enemy_positions, raised>>

(***************************************************************************)
(* The host's inputs: the events it forwards and the frame times.          *)
(***************************************************************************)
center(rect) == <<rect[1] + rect[3] \div 2, rect[2] + rect[4] \div 2>>

\* the centre of every sprite slot of every layout
SlotPoints ==
    UNION { { center(<<positions_for(n)[i][1], positions_for(n)[i][2],
                       sprite_size, sprite_size>>) : i \in 1 .. n } :
            n \in 1 .. MaxEnemies }

\* the points of a click that is no intent: with the left button on nothing,
\* with the right button anywhere
ClickPoints ==
    SlotPoints \cup { <<0, 0>>, center(attack_rect), center(special_rect) }

Dts == { k * DtStep : k \in 1 .. MaxDtSteps }

\* an event is delivered while the process runs and the pending feedback
\* events stay within the bound
Deliver(event) ==
    /\ ~raised
    /\ handle_event(event)
    /\ Len(popups') <= MaxPopups
    /\ UNCHANGED <<game, unit>>

\* The host delivers one key of each pair that handle_event tests together
\* (K_LEFT/K_a, K_RIGHT/K_d, K_RETURN/K_SPACE, K_s/K_x): the second key of a
\* pair takes the same branch.
CycleTargetPrev == Deliver(KeyEvent("K_LEFT"))
CycleTargetNext == Deliver(KeyEvent("K_RIGHT"))
KeyAttack == Deliver(KeyEvent("K_RETURN"))
KeySpecial == Deliver(KeyEvent("K_s"))
KeyOther == Deliver(KeyEvent("K_UP"))
ClickSprite == \E p \in SlotPoints : Deliver(MouseEvent(1, p))
ClickAttack == Deliver(MouseEvent(1, center(attack_rect)))
ClickSpecial == Deliver(MouseEvent(1, center(special_rect)))
ClickOther ==
    \E p \in ClickPoints :
        Deliver(MouseEvent(IF p = <<0, 0>> THEN 1 ELSE 3, p))
Tick == \E dt \in Dts : ~raised /\ update(dt) /\ UNCHANGED <<game, unit>>

Next ==
    \/ CycleTargetPrev
    \/ CycleTargetNext
    \/ KeyAttack
    \/ KeySpecial
    \/ KeyOther
    \/ ClickSprite
    \/ ClickAttack
    \/ ClickSpecial
    \/ ClickOther
    \/ Tick

Spec == Init /\ [][Next]_vars

(***************************************************************************)
(* The engine constructed on any opponent list the constructor accepts:    *)
(* Battle.__init__ has no test on the length of enemies, so the empty list *)
(* is one of them.                                                         *)
(***************************************************************************)
InitAnyOpponents ==
    /\ player \in Players
    /\ enemies \in UNION { [1 .. n -> Opponents] : n \in 0 .. MaxEnemies }
    /\ outcome = "None"
    /\ target_index = 0
    /\ message = _build_intro_message(enemies)
    /\ popups = << >>
    /\ enemy_positions = _recompute_enemy_positions(enemies)
    /\ raised = FALSE
    /\ game = NoGame
    /\ unit = NoUnit

SpecAnyOpponents == InitAnyOpponents /\ [][Next]_vars

(***************************************************************************)
(* The same engine with a player who keeps attacking: the intents are the  *)
(* attack and special intents, an attack intent is not postponed for ever, *)
(* and Game.run calls update every frame.                                  *)
(***************************************************************************)
AttackKeptUp == KeyAttack \/ ClickAttack

NextKeepAttacking ==
    \/ KeyAttack
    \/ KeySpecial
    \/ ClickAttack
    \/ ClickSpecial
    \/ Tick

SpecKeepAttacking ==
    /\ Init
    /\ [][NextKeepAttacking]_vars
    /\ WF_vars(AttackKeptUp)
    /\ WF_vars(Tick)

(***************************************************************************)
(* The same engine followed frame by frame: one opponent, and update       *)
(* called with the frame time of a slow display (0.1 s per frame).         *)
(***************************************************************************)
FrameDts == 1 .. MaxFrameTenths

InitFrames == Init /\ Len(enemies) = 1

TickFrame ==
    \E dt \in FrameDts : ~raised /\ update(dt) /\ UNCHANGED <<game, unit>>

NextFrames ==
    \/ CycleTargetPrev
    \/ CycleTargetNext
    \/ KeyAttack
    \/ KeySpecial
    \/ KeyOther
    \/ ClickSprite
    \/ ClickAttack
    \/ ClickSpecial
    \/ ClickOther
    \/ TickFrame

SpecFrames == InitFrames /\ [][NextFrames]_vars


(***************************************************************************)
(* A Creature exercised on its own: any sequence of its methods, and of    *)
(* the one field change Battle makes directly (special_uses -= 1).         *)
(***************************************************************************)
\* PLAYER_STATS and ENEMY_STATS as main.py defines them
PLAYER_STATS ==
    [base_hp |-> 100, hp_per_level |-> 25, base_dmg_min |-> 12,
     base_dmg_max |-> 18, dmg_per_level |-> 2]
\* mutant: opponents with a tenth of the health
ENEMY_STATS_of_low_health ==
    [base_hp |-> 9, hp_per_level |-> 2, base_dmg_min |-> 10,
     base_dmg_max |-> 16, dmg_per_level |-> 2]

ENEMY_STATS ==
    [base_hp |-> 90, hp_per_level |-> 22, base_dmg_min |-> 10,
     base_dmg_max |-> 16, dmg_per_level |-> 2]

\* the configurations applied: the host's and their small-number analogues
Configs == { PLAYER_STATS, ENEMY_STATS, PlayerStats, EnemyStats }

\* the damage amounts taken: rolls from 0 to MaxHit, and one blow of the whole
\* max_health
Amounts(c) == (0 .. MaxHit) \cup { c.max_health }

called(c, method, cfg, amount) ==
    unit' = [self |-> c, method |-> method, before |-> unit.self,
             cfg |-> cfg, amount |-> amount, result |-> 0]

battle_idle ==
    UNCHANGED <<player, enemies, outcome, target_index, message, popups,
                enemy_positions, raised, game>>

InitCreature ==
    /\ \E level \in 1 .. MaxUnitLevel :
         unit = [self |-> NewCreature("fire", level), method |-> "__init__",
                 before |-> NoCreature, cfg |-> NoCfg, amount |-> 0,
                 result |-> 0]
    /\ player = NoCreature
    /\ enemies = << >>
    /\ outcome = "None"
    /\ target_index = 0
    /\ message = << >>
    /\ popups = << >>
    /\ enemy_positions = << >>
    /\ raised = FALSE
    /\ game = NoGame

CallConfigureStats(cfg) ==
    /\ called(configure_stats(unit.self, cfg), "configure_stats", cfg, 0)
    /\ battle_idle

CallTakeDamage ==
    /\ unit.self.current_health > unit.self.max_health - MaxHits * MaxHit
    /\ \E amount \in Amounts(unit.self) :
         called(take_damage(unit.self, amount), "take_damage", NoCfg, amount)
    /\ battle_idle

\* roll_special_damage: base is the value of self.roll_damage(), recorded as
\* amount beside the value returned
CallRollSpecialDamage ==
    /\ \E base \in roll_damage(unit.self) :
         unit' = [self |-> unit.self, method |-> "roll_special_damage",
                  before |-> unit.self, cfg |-> NoCfg, amount |-> base,
                  result |-> special_of(base)]
    /\ battle_idle

CallLevelUp ==
    /\ unit.self.level < MaxUnitLevel
    /\ called(level_up(unit.self), "level_up", NoCfg, 0)
    /\ battle_idle

CallResetAfterBattle ==
    /\ called(reset_after_battle(unit.self), "reset_after_battle", NoCfg, 0)
    /\ battle_idle

SpendSpecial ==
    /\ unit.self.special_uses > 0
    /\ called(spend_special(unit.self), "special_uses -= 1", NoCfg, 0)
    /\ battle_idle

NextCreature ==
    \/ \E cfg \in Configs : CallConfigureStats(cfg)
    \/ CallTakeDamage
    \/ CallRollSpecialDamage
    \/ CallLevelUp
    \/ CallResetAfterBattle
    \/ SpendSpecial

SpecCreature == InitCreature /\ [][NextCreature]_vars

(***************************************************************************)
(* Game (src/main.py): the states of the game around a battle.  The map,   *)
(* the biomes, the story text, sounds and drawing are left out: a key on   *)
(* the map either reaches an encounter tile or changes nothing modelled.   *)
(***************************************************************************)
\* BOSS_HP_MULT = 1.25 and BOSS_DMG_MULT = 1.15, in hundredths
BOSS_HP_MULT == 125
BOSS_DMG_MULT == 115

\* int(x * mult) for an int x >= 0 and the float mult of a literal given in
\* hundredths
int_times(x, mult) == int_of_float(float_times(x, float_of_hundredths(mult)))

_create_creature(element) == NewCreature(element, 1)

\* _configure_for_battle, for one creature
configured(c, cfg) == reset_after_battle(configure_stats(c, cfg))

\* mutant: the boss keeps the health it had before the scaling
boss_scaled_max_health_only(c) ==
    [c EXCEPT !.max_health = int_times(c.max_health, BOSS_HP_MULT),
              !.damage_min = int_times(c.damage_min, BOSS_DMG_MULT),
              !.damage_max = int_times(c.damage_max, BOSS_DMG_MULT)]

\* lines 466-470
boss_scaled(c) ==
    [c EXCEPT !.max_health = int_times(c.max_health, BOSS_HP_MULT),
              !.current_health = int_times(c.max_health, BOSS_HP_MULT),
              !.damage_min = int_times(c.damage_min, BOSS_DMG_MULT),
              !.damage_max = int_times(c.damage_max, BOSS_DMG_MULT)]

\* a list of n creatures built alike
copies(c, n) ==
    LET F[k \in 0 .. n] == IF k = 0 THEN << >> ELSE Append(F[k - 1], c)
    IN  F[n]

InitGame ==
    /\ game = [state |-> "INTRO", battles_won |-> 0,
               last_battle_was_boss |-> FALSE, battle |-> FALSE]
    /\ player = NoCreature
    /\ enemies = << >>
    /\ outcome = "None"
    /\ target_index = 0
    /\ message = << >>
    /\ popups = << >>
    /\ enemy_positions = << >>
    /\ raised = FALSE
    /\ unit = NoUnit

battle_kept ==
    UNCHANGED <<enemies, outcome, target_index, message, popups,
                enemy_positions, raised, unit>>

_handle_intro_event ==
    /\ game.state = "INTRO"
    /\ game' = [game EXCEPT !.state = "STORY"]
    /\ UNCHANGED player
    /\ battle_kept

_handle_story_event ==
    /\ game.state = "STORY"
    /\ game' = [game EXCEPT !.state = "SELECTION"]
    /\ UNCHANGED player
    /\ battle_kept

_handle_selection_event ==
    /\ game.state = "SELECTION"
    /\ \E element \in {"fire"} : player' = _create_creature(element)
    /\ game' = [game EXCEPT !.state = "MAP"]
    /\ battle_kept

\* _start_battle with the stat tuning given: pstats for the player, estats
\* for the opponents
start_battle_with(pstats, estats) ==
    \E is_boss \in BOOLEAN : \E enemy_count \in 1 .. MaxEnemies :
         LET es == IF is_boss
                   THEN <<boss_scaled(configured(
                            NewCreature("boss", player.level), estats))>>
                   ELSE copies(configured(
                            NewCreature("enemy", player.level), estats),
                               enemy_count)
         IN  /\ player' = configured(player, pstats)
             /\ enemies' = es
             /\ outcome' = "None"
             /\ target_index' = 0
             /\ message' = _build_intro_message(es)
             /\ popups' = << >>
             /\ enemy_positions' = _recompute_enemy_positions(es)
             /\ raised' = FALSE
             /\ game' = [game EXCEPT !.last_battle_was_boss = is_boss,
                                     !.state = "BATTLE", !.battle = TRUE]
             /\ unit' = unit

\* _start_battle; the host stops looking for encounters once the player has
\* reached MaxGameLevel
_start_battle ==
    /\ player.level < MaxGameLevel
    /\ start_battle_with(PlayerStats, EnemyStats)

\* _handle_map_event for a key that moves the player onto an encounter tile
_handle_map_event ==
    /\ game.state = "MAP"
    /\ _start_battle

\* _handle_events in state BATTLE: the event goes to battle.handle_event
BattleEvent ==
    /\ game.state = "BATTLE"
    /\ \/ CycleTargetPrev
       \/ CycleTargetNext
       \/ KeyAttack
       \/ KeySpecial
       \/ KeyOther
       \/ ClickSprite
       \/ ClickAttack
       \/ ClickSpecial
       \/ ClickOther

\* mutant: every decided battle is followed up as a win
_update_winning_any_outcome(dt) ==
    /\ game.state = "BATTLE" /\ game.battle
    /\ ~raised
    /\ popups' = decayed(popups, dt)
    /\ IF outcome # "None"
       THEN /\ player' = reset_after_battle(
                             configure_stats(level_up(player), PlayerStats))
            /\ game' = [game EXCEPT !.battles_won = @ + 1, !.state = "WIN"]
       ELSE UNCHANGED <<player, game>>
    /\ UNCHANGED <<enemies, outcome, target_index, message, enemy_positions,
                   raised, unit>>

\* _update(dt) in state BATTLE
_update(dt) ==
    /\ game.state = "BATTLE" /\ game.battle
    /\ ~raised
    /\ popups' = decayed(popups, dt)
    /\ IF outcome = "WIN"
       THEN /\ player' = reset_after_battle(
                             configure_stats(level_up(player), PlayerStats))
            /\ game' = [game EXCEPT !.battles_won = @ + 1, !.state = "WIN"]
       ELSE IF outcome = "LOSE"
       THEN /\ game' = [game EXCEPT !.state = "LOSE"]
            /\ UNCHANGED player
       ELSE UNCHANGED <<player, game>>
    /\ UNCHANGED <<enemies, outcome, target_index, message, enemy_positions,
                   raised, unit>>

GameUpdate == \E dt \in Dts : _update(dt)

_handle_win_event ==
    /\ game.state = "WIN"
    /\ game' = [game EXCEPT !.state = "MAP"]
    /\ player' = reset_after_battle(player)
    /\ battle_kept

\* _handle_lose_event, K_RETURN: back to the selection, the run is dropped
LoseReturn ==
    /\ game.state = "LOSE"
    /\ game' = [game EXCEPT !.state = "SELECTION", !.battles_won = 0,
                            !.battle = FALSE]
    /\ player' = NoCreature
    /\ battle_kept

\* mutant: the quick restart keeps the count of battles won
LoseRestart_keeping_wins ==
    /\ game.state = "LOSE"
    /\ player # NoCreature
    /\ player' = _create_creature(player.element)
    /\ game' = [game EXCEPT !.state = "MAP"]
    /\ battle_kept

\* _handle_lose_event, K_r: a new run with the same element
LoseRestart ==
    /\ game.state = "LOSE"
    /\ player # NoCreature
    /\ player' = _create_creature(player.element)
    /\ game' = [game EXCEPT !.state = "MAP", !.battles_won = 0]
    /\ battle_kept

NextGame ==
    \/ _handle_intro_event
    \/ _handle_story_event
    \/ _handle_selection_event
    \/ _handle_map_event
    \/ BattleEvent
    \/ GameUpdate
    \/ _handle_win_event
    \/ LoseReturn
    \/ LoseRestart

SpecGame == InitGame /\ [][NextGame]_vars

(***************************************************************************)
(* The game with its own stat tuning (PLAYER_STATS, ENEMY_STATS, the boss  *)
(* multipliers): a player of any level on the map, the encounter it steps  *)
(* into, and the special attack of that encounter.                         *)
(***************************************************************************)
\* the player on the map at level l: as created at level 1, as _update left
\* it after a win above
player_on_map(l) ==
    IF l = 1 THEN _create_creature("fire")
    ELSE configured(NewCreature("fire", l), PLAYER_STATS)

InitTuned ==
    /\ \E l \in 1 .. MaxTunedLevel :
         /\ player = player_on_map(l)
         /\ game = [state |-> "MAP", battles_won |-> l - 1,
                    last_battle_was_boss |-> FALSE, battle |-> FALSE]
    /\ enemies = << >>
    /\ outcome = "None"
    /\ target_index = 0
    /\ message = << >>
    /\ popups = << >>
    /\ enemy_positions = << >>
    /\ raised = FALSE
    /\ unit = NoUnit

TunedEncounter ==
    /\ game.state = "MAP"
    /\ start_battle_with(PLAYER_STATS, ENEMY_STATS)

\* _handle_events in state BATTLE, for the special intents
TunedSpecial ==
    /\ game.state = "BATTLE"
    /\ \/ KeySpecial
       \/ ClickSpecial

NextTuned ==
    \/ TunedEncounter
    \/ TunedSpecial

SpecTuned == InitTuned /\ [][NextTuned]_vars


(***************************************************************************)
(* Vocabulary of the properties.  Health is read from current_health       *)
(* directly, so that the properties do not rest on is_defeated.            *)
(***************************************************************************)
BasicAttackIntent == KeyAttack \/ ClickAttack
SpecialAttackIntent == KeySpecial \/ ClickSpecial

alive_set(es) == { i \in 1 .. Len(es) : es[i].current_health > 0 }
alive_count == Cardinality(alive_set(enemies))
healths(es) == [i \in 1 .. Len(es) |-> es[i].current_health]

\* a step that appends feedback events, and the events it appends
appends == /\ Len(popups') > Len(popups)
           /\ SubSeq(popups', 1, Len(popups)) = popups
appended == SubSeq(popups', Len(popups) + 1, Len(popups'))
is_hit(p) == p.color = COLOR_ENEMY_HIT
is_counter(p) == p.color = COLOR_PLAYER_HIT
count_of(ps, color) == Cardinality({ i \in 1 .. Len(ps) : ps[i].color = color })
fresh(p) == p.time_left = POPUP_DURATION

(***************************************************************************)
(* C1  Once the outcome is WIN or LOSE, no step (so no intent delivered    *)
(* through handle_event: attack, special attack, cycle previous/next,      *)
(* click-select) changes outcome, message, the player's or any opponent's  *)
(* current_health, special_uses or target_index.                           *)
(***************************************************************************)
C1_ResolvedSessionIsFrozen ==
    [][ outcome # "None" =>
          /\ outcome' = outcome
          /\ message' = message
          /\ player'.current_health = player.current_health
          /\ healths(enemies') = healths(enemies)
          /\ player'.special_uses = player.special_uses
          /\ target_index' = target_index ]_vars

\* a lost session in which an attack, a special attack, a cycle and a click
\* would all act if they were accepted
C1_Witness ==
    /\ outcome = "LOSE"
    /\ player.special_uses > 0
    /\ alive_count >= 2
    /\ target_index = 0

(***************************************************************************)
(* C2  In every state, if at least one opponent is alive then              *)
(* 0 <= target_index <= aliveCount - 1.                                    *)
(***************************************************************************)
C2_TargetIndexInAliveView ==
    alive_count > 0 => (0 <= target_index /\ target_index <= alive_count - 1)

\* the last opponent of three was the target and has been defeated, and the
\* target is the last slot of the shrunk alive view
C2_Witness ==
    /\ Len(enemies) = 3
    /\ alive_set(enemies) = {1, 2}
    /\ target_index = 1
    /\ outcome = "None"

(***************************************************************************)
(* C3  An attack after which no opponent is alive sets outcome to WIN in   *)
(* the same step, leaves the player's current_health unchanged and appends *)
(* no counterattack feedback event.                                        *)
(***************************************************************************)
C3_FinishingBlowWinsWithoutCounter ==
    [][ (appends /\ alive_set(enemies') = {}) =>
          /\ outcome' = "WIN"
          /\ player'.current_health = player.current_health
          /\ count_of(appended, COLOR_PLAYER_HIT) = 0 ]_vars

\* the first attack of the session was the finishing blow
C3_Witness ==
    /\ outcome = "WIN"
    /\ alive_count = 0
    /\ Len(popups) = 1 /\ is_hit(popups[1]) /\ fresh(popups[1])
    /\ player.current_health = player.max_health

(***************************************************************************)
(* C4  An attack that resolves a counterattack leaves outcome LOSE if the  *)
(* player's current_health is then <= 0, and leaves it None otherwise.     *)
(***************************************************************************)
C4_DefeatIffCounterKills ==
    [][ (appends /\ count_of(appended, COLOR_PLAYER_HIT) > 0) =>
          outcome' = IF player'.current_health <= 0 THEN "LOSE" ELSE "None" ]_vars

\* the counterattack brought the player to exactly 0
C4_Witness ==
    /\ outcome = "LOSE"
    /\ player.current_health = 0
    /\ popups # << >> /\ is_counter(popups[Len(popups)])

(***************************************************************************)
(* C5  special_uses never increases and never becomes negative; an         *)
(* accepted special attack decreases it by exactly 1 and no other step     *)
(* (basic attack, target selection, refused special, update) changes it.   *)
(***************************************************************************)
C5_SpecialUsesOnlySpent ==
    [][ /\ player'.special_uses >= 0
        /\ player'.special_uses <= player.special_uses
        /\ (outcome = "None" /\ player.special_uses > 0
              /\ player'.special_uses # player.special_uses - 1)
              => ~SpecialAttackIntent
        /\ player'.special_uses # player.special_uses => SpecialAttackIntent
      ]_vars

\* the special use has been spent and the session went on
C5_Witness ==
    /\ player.special_uses = 0
    /\ outcome = "None"
    /\ Len(popups) = 4

(***************************************************************************)
(* C6  A special-attack intent in an undecided session with special_uses   *)
(* 0 changes no current_health, special_uses, target_index, outcome or     *)
(* feedback event and sets message to "No special uses left!".             *)
(***************************************************************************)
C6_SpecialRefusedWithoutUses ==
    [][ (outcome = "None" /\ player.special_uses = 0 /\ SpecialAttackIntent) =>
          /\ message' = <<"No special uses left!">>
          /\ player' = player
          /\ enemies' = enemies
          /\ target_index' = target_index
          /\ outcome' = outcome
          /\ popups' = popups ]_vars

C6_Witness ==
    /\ message = <<"No special uses left!">>
    /\ outcome = "None"
    /\ player.special_uses = 0

(***************************************************************************)
(* C7  outcome starts None and changes only from None to WIN or from None  *)
(* to LOSE.                                                                *)
(***************************************************************************)
C7_OutcomeMonotonic ==
    /\ outcome = "None"
    /\ [][ /\ outcome # "None" => outcome' = outcome
           /\ outcome' \in {"None", "WIN", "LOSE"} ]_vars

\* a won session that kept running until its feedback events expired
C7_Witness ==
    /\ outcome = "WIN"
    /\ popups = << >>
    /\ Len(enemies) = 2

(***************************************************************************)
(* C8  An accepted special attack with more than one opponent alive        *)
(* decreases special_uses by 1, takes from every opponent alive at the     *)
(* start one value of roll_special_damage, and leaves the current_health   *)
(* of the opponents already defeated unchanged.                            *)
(***************************************************************************)
C8_AreaSpecialHitsEveryAliveOnce ==
    [][ (outcome = "None" /\ player.special_uses > 0 /\ alive_count > 1
           /\ SpecialAttackIntent) =>
          /\ player'.special_uses = player.special_uses - 1
          /\ Len(enemies') = Len(enemies)
          /\ \A i \in 1 .. Len(enemies) :
               IF enemies[i].current_health > 0
               THEN enemies[i].current_health - enemies'[i].current_health
                        \in { (135 * b) \div 100 + 6 :
                                b \in player.damage_min .. player.damage_max }
               ELSE enemies'[i].current_health = enemies[i].current_health
      ]_vars

\* the first target died of its roll and the later targets took theirs, a
\* different one
C8_Witness ==
    /\ Len(enemies) = 3
    /\ player.special_uses = 0
    /\ Len(popups) = 4
    /\ \A k \in 1 .. 3 : is_hit(popups[k]) /\ fresh(popups[k])
    /\ popups[1].text # popups[2].text
    /\ enemies[1].current_health <= 0
    /\ enemies[2].current_health > 0
    /\ enemies[3].current_health < enemies[3].max_health

(***************************************************************************)
(* C9  An accepted area special attack on k > 1 alive opponents appends    *)
(* k opponent feedback events first and then one attacker feedback event   *)
(* exactly when an opponent survives; when none survives it appends the k  *)
(* events only, outcome is WIN and special_uses went from 1 to 0.          *)
(***************************************************************************)
C9_AreaSpecialFeedbackCount ==
    [][ (outcome = "None" /\ player.special_uses > 0 /\ alive_count > 1
           /\ SpecialAttackIntent) =>
          /\ appends
          /\ Len(appended) >= alive_count
          /\ \A k \in 1 .. alive_count : is_hit(appended[k])
          /\ count_of(appended, COLOR_ENEMY_HIT) = alive_count
          /\ IF alive_set(enemies') # {}
             THEN /\ Len(appended) = alive_count + 1
                  /\ is_counter(appended[alive_count + 1])
             ELSE /\ Len(appended) = alive_count
                  /\ outcome' = "WIN"
                  /\ player.special_uses = 1
                  /\ player'.special_uses = 0 ]_vars

\* Scenario C: three opponents defeated by one special attack
C9_Witness ==
    /\ Len(enemies) = 3
    /\ alive_count = 0
    /\ outcome = "WIN"
    /\ player.special_uses = 0
    /\ Len(popups) = 3
    /\ \A k \in 1 .. 3 : is_hit(popups[k]) /\ fresh(popups[k])

(***************************************************************************)
(* C10  An attack after which an opponent is alive resolves exactly one    *)
(* counterattack: one attacker feedback event, and the player's            *)
(* current_health decreases by a value in [damage_min, damage_max] of an   *)
(* opponent that is alive after the player's damage.                       *)
(***************************************************************************)
C10_ExactlyOneCounterByAliveOpponent ==
    [][ (appends /\ alive_set(enemies') # {}) =>
          /\ count_of(appended, COLOR_PLAYER_HIT) = 1
          /\ is_counter(appended[Len(appended)])
          /\ \E i \in alive_set(enemies') :
               /\ player.current_health - player'.current_health
                     \in enemies'[i].damage_min .. enemies'[i].damage_max
               /\ appended[Len(appended)].text =
                     <<"-", player.current_health - player'.current_health>>
      ]_vars

\* a stronger opponent is defeated, a weaker one is alive and has just
\* counterattacked
C10_Witness ==
    /\ outcome = "None"
    /\ \E i \in 1 .. Len(enemies) : \E j \in alive_set(enemies) :
         /\ enemies[i].current_health <= 0
         /\ enemies[i].damage_max > enemies[j].damage_max
    /\ popups # << >>
    /\ is_counter(popups[Len(popups)]) /\ fresh(popups[Len(popups)])
    /\ alive_count < Len(enemies)


\* the position in es of the opponent at index k (0-based) of the alive view
nth_alive(es, k) ==
    CHOOSE i \in alive_set(es) :
        Cardinality({ x \in alive_set(es) : x < i }) = k

\* only the named numeric fields of a creature may differ
same_but_health(c, d) == [c EXCEPT !.current_health = 0] = [d EXCEPT !.current_health = 0]
same_but_health_and_special(c, d) ==
    [c EXCEPT !.current_health = 0, !.special_uses = 0] =
        [d EXCEPT !.current_health = 0, !.special_uses = 0]

(***************************************************************************)
(* C11  An accepted basic attack decreases the current_health of exactly   *)
(* one opponent, the one at target_index of the alive view, by a value in  *)
(* the player's [damage_min, damage_max]; every other opponent and the     *)
(* player's special_uses are unchanged.                                    *)
(***************************************************************************)
C11_BasicAttackHitsTheTarget ==
    [][ (outcome = "None" /\ alive_count > 0 /\ BasicAttackIntent) =>
          LET j == nth_alive(enemies, target_index)
              d == enemies[j].current_health - enemies'[j].current_health
          IN  /\ d \in player.damage_min .. player.damage_max
              /\ d > 0
              /\ enemies' = [enemies EXCEPT ![j].current_health = @ - d]
              /\ player'.special_uses = player.special_uses ]_vars

\* the first opponent is defeated, the second slot of the shrunk alive view
\* is the target, and a basic attack has just hit the opponent drawn there
C11_Witness ==
    /\ outcome = "None"
    /\ Len(enemies) = 3
    /\ alive_set(enemies) = {2, 3}
    /\ target_index = 1
    /\ Len(popups) = 2
    /\ is_hit(popups[1]) /\ fresh(popups[1])
    /\ popups[1].text[2] \in player.damage_min .. player.damage_max
    /\ popups[1].pos = popup_anchor(positions_for(2)[2])

(***************************************************************************)
(* C12  With exactly one opponent alive and special_uses > 0, an accepted  *)
(* special attack is the transition of a basic attack (one blow on the     *)
(* alive opponent, WIN without counter if it dies, otherwise one counter   *)
(* by it, LOSE if the player is then at 0 or below, same target_index and  *)
(* message form) except that the damage is a roll_special_damage value and *)
(* special_uses decreases by 1.                                            *)
(***************************************************************************)
OneOnOneExchange(dmgs, spent) ==
    LET j == nth_alive(enemies, 0)
        d == enemies[j].current_health - enemies'[j].current_health
        e == player.current_health - player'.current_health
    IN  /\ d \in dmgs
        /\ enemies' = [enemies EXCEPT ![j].current_health = @ - d]
        /\ same_but_health_and_special(player', player)
        /\ player'.special_uses = player.special_uses - spent
        /\ target_index' = 0
        /\ enemy_positions' = enemy_positions
        /\ appends
        /\ appended[1] =
             [text |-> <<"-", d>>, pos |-> popup_anchor(positions_for(1)[1]),
              color |-> COLOR_ENEMY_HIT, time_left |-> POPUP_DURATION]
        /\ IF enemies'[j].current_health <= 0
           THEN /\ outcome' = "WIN"
                /\ message' = <<"Enemy defeated!">>
                /\ e = 0
                /\ Len(appended) = 1
           ELSE /\ e \in enemies[j].damage_min .. enemies[j].damage_max
                /\ Len(appended) = 2
                /\ appended[2] =
                     [text |-> <<"-", e>>, pos |-> popup_anchor(left_pos),
                      color |-> COLOR_PLAYER_HIT, time_left |-> POPUP_DURATION]
                /\ IF player'.current_health <= 0
                   THEN /\ outcome' = "LOSE"
                        /\ message' = <<"You have been defeated!">>
                   ELSE /\ outcome' = "None"
                        /\ message' =
                             <<"You dealt ", d, ". Enemy hit back for ", e, ".">>

C12_SingleSpecialIsBasicWithSpecialDamage ==
    [][ (outcome = "None" /\ alive_count = 1) =>
          /\ (player.special_uses > 0 /\ SpecialAttackIntent) =>
                OneOnOneExchange({ (135 * b) \div 100 + 6 :
                                     b \in player.damage_min .. player.damage_max },
                                 1)
          /\ BasicAttackIntent =>
                OneOnOneExchange(player.damage_min .. player.damage_max, 0)
      ]_vars

\* the only opponent took a special blow, survived and hit back: the message
\* has the form of a basic attack and carries the special damage
C12_Witness ==
    /\ Len(enemies) = 1
    /\ outcome = "None"
    /\ player.special_uses = 0
    /\ Len(message) = 5
    /\ message[1] = "You dealt "
    /\ message[2] = enemies[1].max_health - enemies[1].current_health
    /\ message[2] \in { (135 * b) \div 100 + 6 :
                          b \in player.damage_min .. player.damage_max }

(***************************************************************************)
(* C14  While the outcome is None and n >= 1 opponents are alive, Next     *)
(* sets target_index to (target_index + 1) mod n and Previous to           *)
(* (target_index - 1) mod n; Next then Previous, Previous then Next, and n *)
(* times Next restore target_index; neither changes a health, special_uses,*)
(* outcome, message or feedback event.                                     *)
(***************************************************************************)
\* target_index after k further Next intents
after_nexts(ti, n, k) ==
    LET F[i \in 0 .. k] == IF i = 0 THEN ti ELSE next_index(F[i - 1], 1, n)
    IN  F[k]

C14_CycleWrapsAndRestores ==
    /\ [] ( (outcome = "None" /\ alive_count >= 1) =>
              /\ next_index(next_index(target_index, 1, alive_count), -1,
                            alive_count) = target_index
              /\ next_index(next_index(target_index, -1, alive_count), 1,
                            alive_count) = target_index
              /\ after_nexts(target_index, alive_count, alive_count) = target_index )
    /\ [][ (outcome = "None" /\ alive_count >= 1) =>
             /\ CycleTargetNext =>
                  /\ target_index' =
                       IF target_index + 1 = alive_count THEN 0
                       ELSE target_index + 1
                  /\ UNCHANGED <<player, enemies, outcome, message, popups>>
             /\ CycleTargetPrev =>
                  /\ target_index' =
                       IF target_index = 0 THEN alive_count - 1
                       ELSE target_index - 1
                  /\ UNCHANGED <<player, enemies, outcome, message, popups>>
         ]_vars

\* Previous from the first of three opponents wrapped to the last one, before
\* any attack
C14_Witness ==
    /\ outcome = "None"
    /\ alive_count = 3
    /\ target_index = 2
    /\ popups = << >>
    /\ message = <<3, " enemies appear!">>

(***************************************************************************)
(* C15  A left click on the sprite drawn at index i of the alive view sets *)
(* target_index to i and performs no attack; a left click on no sprite and *)
(* no button changes nothing; no click of either kind changes a health,    *)
(* special_uses or outcome.                                                *)
(***************************************************************************)
\* the index (0-based) of the alive-view slot drawn around point p, or -1
slot_of(p) ==
    LET slots == positions_for(alive_count)
        hit == { i \in 1 .. alive_count :
                   /\ slots[i][1] <= p[1] /\ p[1] < slots[i][1] + sprite_size
                   /\ slots[i][2] <= p[2] /\ p[2] < slots[i][2] + sprite_size }
    IN  IF hit = {} THEN -1 ELSE (CHOOSE i \in hit : TRUE) - 1

C15_ClickSelectsWithoutAttacking ==
    [][ (outcome = "None" /\ alive_count >= 1) =>
          \A p \in SlotPoints \cup { <<0, 0>> } :
             Deliver(MouseEvent(1, p)) =>
                /\ slot_of(p) # -1
                /\ target_index' = slot_of(p)
                /\ UNCHANGED <<player, enemies, outcome, message, popups>>
      ]_vars

\* the second slot of the two-slot layout was selected before any attack, by
\* a click at its centre
C15_Witness ==
    /\ outcome = "None"
    /\ Len(enemies) = 2
    /\ alive_count = 2
    /\ target_index = 1
    /\ slot_of(center(<<positions_for(2)[2][1], positions_for(2)[2][2],
                        sprite_size, sprite_size>>)) = target_index
    /\ popups = << >>
    /\ message = <<2, " enemies appear!">>

(***************************************************************************)
(* C17  update(dt) changes nothing but the feedback events: every health,  *)
(* special_uses, outcome, target_index and message is unchanged.           *)
(***************************************************************************)
\* no step that changes one of them is an update
C17_UpdateTouchesOnlyFeedback ==
    [][ \/ UNCHANGED <<player, enemies, outcome, target_index, message,
                       enemy_positions>>
        \/ ~Tick ]_vars

\* an exchange happened and update has aged its two feedback events
C17_Witness ==
    /\ outcome = "None"
    /\ Len(popups) = 2
    /\ \A k \in 1 .. 2 : ~fresh(popups[k])
    /\ Len(message) = 5
    /\ player.current_health < player.max_health


(***************************************************************************)
(* C16  Every feedback event is created with the lifetime POPUP_DURATION;  *)
(* update(dt) decreases the lifetime of every event by dt, up to the       *)
(* rounding of one float subtraction, and removes exactly the events whose *)
(* lifetime is then <= 0, so that every event that remains has a lifetime  *)
(* > 0; an event is absent once the frame times since its creation sum to  *)
(* more than its initial lifetime.  (When they sum to the lifetime itself  *)
(* the float subtraction can leave a positive remainder of the order of    *)
(* 1e-16 and the event stays for one more update.)                         *)
(***************************************************************************)
\* a float is positive
float_positive(x) == x.tenths > 0 \/ (x.tenths = 0 /\ x.ulps > 0)

\* half the spacing of the floats below 1.0, in units of 2^-60 tenths
HalfSpacing == spacing(9, 0) \div 2

\* popups' is popups without its m oldest events, which have no lifetime left
\* after dt, and with every other event aged by dt
aged_suffix(dt, m) ==
    /\ Len(popups') = Len(popups) - m
    /\ \A i \in 1 .. m : popups[i].time_left.tenths - dt <= 0
    /\ \A i \in m + 1 .. Len(popups) :
         LET p == popups[i]
             q == popups'[i - m]
             exact == p.time_left.ulps - float_of_tenths(dt).ulps
         IN  /\ q.text = p.text /\ q.color = p.color
             /\ q.time_left.tenths = p.time_left.tenths - dt
             /\ q.time_left.ulps - exact <= HalfSpacing
             /\ exact - q.time_left.ulps <= HalfSpacing
             /\ float_positive(q.time_left)

\* what every update(dt) does, whatever it does to the feedback events: it
\* writes nothing else, adds no event and, as dt > 0, moves those it keeps
keeps_the_battle ==
    /\ UNCHANGED <<player, enemies, outcome, target_index, message>>
    /\ Len(popups') <= Len(popups)
    /\ popups = << >> \/ popups' # popups

C13_NoSessionWithoutOpponents ==
    ~(Len(enemies) = 0 /\ outcome = "None")


(***************************************************************************)
(* C18  For every creature, in every state reached through battle actions  *)
(* and the host's operations (configure_stats, level_up,                   *)
(* reset_after_battle, boss scaling), 0 <= special_uses <=                 *)
(* max_special_uses and current_health <= max_health.                      *)
(***************************************************************************)
within_limits(c) ==
    /\ 0 <= c.special_uses
    /\ c.special_uses <= c.max_special_uses
    /\ c.current_health <= c.max_health

C18_CreatureLimits ==
    /\ player # NoCreature => within_limits(player)
    /\ \A i \in 1 .. Len(enemies) : within_limits(enemies[i])

\* a boss battle was won with the special attack: the boss carries its scaled
\* max_health, the player was levelled up, configured and reset
C18_Witness ==
    /\ game.state = "WIN"
    /\ game.last_battle_was_boss
    /\ Len(enemies) = 1
    /\ enemies[1].element = "boss"
    /\ enemies[1].max_health >
           EnemyStats.base_hp + enemies[1].level * EnemyStats.hp_per_level
    /\ enemies[1].current_health <= 0
    /\ player.level = 2
    /\ player.special_uses = player.max_special_uses
    /\ player.current_health = player.max_health

(***************************************************************************)
(* C19  After reset_after_battle the creature is not defeated and          *)
(* special_uses equals max_special_uses; reset_after_battle changes only   *)
(* current_health and special_uses (level, max_health and the damage       *)
(* bounds are unchanged), and a second reset changes nothing.              *)
(***************************************************************************)
C19_ResetAfterBattle ==
    /\ [] ( reset_after_battle(reset_after_battle(unit.self)) =
                reset_after_battle(unit.self) )
    /\ [][ CallResetAfterBattle =>
             /\ unit'.self.current_health > 0
             /\ unit'.self.current_health = unit.self.max_health
             /\ unit'.self.special_uses = unit.self.max_special_uses
             /\ same_but_health_and_special(unit'.self, unit.self)
             /\ unit.method = "reset_after_battle" => unit'.self = unit.self
         ]_vars

\* a defeated level-2 creature with PLAYER_STATS and no special use left has
\* been reset
C19_Witness ==
    /\ unit.method = "reset_after_battle"
    /\ unit.before.current_health <= 0
    /\ unit.before.special_uses = 0
    /\ unit.self.level = 2
    /\ unit.self.max_health = PLAYER_STATS.base_hp + 2 * PLAYER_STATS.hp_per_level
    /\ unit.self.current_health = unit.self.max_health
    /\ unit.self.special_uses = 1

(***************************************************************************)
(* C20  configure_stats(base_hp, hp_per_level, base_dmg_min, base_dmg_max, *)
(* dmg_per_level) sets max_health and current_health to                    *)
(* base_hp + level * hp_per_level whatever the health was, damage_min to   *)
(* base_dmg_min + level * dmg_per_level, damage_max to                     *)
(* base_dmg_max + level * dmg_per_level, and leaves level and special_uses *)
(* unchanged.                                                              *)
(***************************************************************************)
C20_ConfigureStats ==
    [][ \A cfg \in Configs :
          CallConfigureStats(cfg) =>
             /\ unit'.self.max_health =
                    cfg.base_hp + unit.self.level * cfg.hp_per_level
             /\ unit'.self.current_health =
                    cfg.base_hp + unit.self.level * cfg.hp_per_level
             /\ unit'.self.damage_min =
                    cfg.base_dmg_min + unit.self.level * cfg.dmg_per_level
             /\ unit'.self.damage_max =
                    cfg.base_dmg_max + unit.self.level * cfg.dmg_per_level
             /\ unit'.self.level = unit.self.level
             /\ unit'.self.special_uses = unit.self.special_uses
             /\ unit'.self.max_special_uses = unit.self.max_special_uses
             /\ unit'.self.element = unit.self.element ]_vars

\* a damaged level-2 creature without special use, configured before with
\* other figures, has been given ENEMY_STATS
C20_Witness ==
    /\ unit.method = "configure_stats"
    /\ unit.cfg = ENEMY_STATS
    /\ unit.before.current_health < unit.before.max_health
    /\ unit.before.max_health # unit.self.max_health
    /\ unit.self.level = 2
    /\ unit.self.special_uses = 0
    /\ unit.self.current_health = 134
    /\ unit.self.damage_min = 14
    /\ unit.self.damage_max = 20


(***************************************************************************)
(* C21  For every basic roll b in [damage_min, damage_max],                *)
(* roll_special_damage returns floor(b * 1.35) + 6, that is                *)
(* floor(135 * b / 100) + 6 in integer arithmetic, a function of that      *)
(* single roll; the creature is not changed.                               *)
(***************************************************************************)
C21_SpecialDamageFormula ==
    [][ (unit'.method = "roll_special_damage" /\ CallRollSpecialDamage) =>
            /\ unit'.amount \in unit.self.damage_min .. unit.self.damage_max
            /\ unit'.result = (135 * unit'.amount) \div 100 + 6
            /\ unit'.self = unit.self ]_vars

\* the roll 20 of a level-1 creature with PLAYER_STATS: 20 * 1.35 lies halfway
\* between two floats and is rounded to 27.0
C21_Witness ==
    /\ unit.method = "roll_special_damage"
    /\ unit.self.damage_max = PLAYER_STATS.base_dmg_max
                                  + PLAYER_STATS.dmg_per_level
    /\ unit.amount = unit.self.damage_max
    /\ unit.result = 33

(***************************************************************************)
(* C22  take_damage(amount) sets current_health to its previous value      *)
(* minus amount, with no floor at zero: the health may become negative and *)
(* later damage is subtracted all the same; nothing else is changed.       *)
(* is_defeated() is true exactly when current_health <= 0.                 *)
(***************************************************************************)
C22_TakeDamageAndIsDefeated ==
    /\ [] ( is_defeated(unit.self) <=> unit.self.current_health <= 0 )
    /\ [][ (unit'.method = "take_damage" /\ CallTakeDamage) =>
             /\ unit'.self.current_health =
                    unit.self.current_health - unit'.amount
             /\ same_but_health(unit'.self, unit.self) ]_vars

\* a creature with negative health has taken further damage
C22_Witness ==
    /\ unit.method = "take_damage"
    /\ unit.before.current_health < 0
    /\ unit.amount > 0
    /\ unit.self.current_health = unit.before.current_health - unit.amount
    /\ is_defeated(unit.self)


(***************************************************************************)
(* C23  Whenever the game enters STATE_BATTLE (boss encounters and         *)
(* encounters after earlier wins, losses or restarts included), the player *)
(* has current_health = max_health and special_uses = max_special_uses,    *)
(* and every opponent has current_health = max_health > 0.                 *)
(***************************************************************************)
at_full_health(c) == c.current_health = c.max_health /\ c.max_health > 0

C23_EncountersStartAtFullStrength ==
    [][ (game.state # "BATTLE" /\ game'.state = "BATTLE") =>
            /\ at_full_health(player')
            /\ player'.special_uses = player'.max_special_uses
            /\ Len(enemies') >= 1
            /\ \A i \in 1 .. Len(enemies') : at_full_health(enemies'[i]) ]_vars

\* a boss encounter has just begun for a player who won an earlier battle
C23_Witness ==
    /\ game.state = "BATTLE"
    /\ game.battles_won >= 1
    /\ game.last_battle_was_boss
    /\ popups = << >>
    /\ message = _build_intro_message(enemies)
    /\ enemies[1].element = "boss"
    /\ at_full_health(enemies[1])
    /\ enemies[1].max_health >
           EnemyStats.base_hp + enemies[1].level * EnemyStats.hp_per_level
    /\ player.level = 2
    /\ at_full_health(player)
    /\ player.special_uses = 1


(***************************************************************************)
(* C24  In every reachable state of a session built from a live player and *)
(* a non-empty list of live opponents: outcome is WIN if and only if no    *)
(* opponent is alive, LOSE if and only if the player is defeated, and an   *)
(* undecided outcome implies a live player and at least one live opponent; *)
(* the player and all opponents are never defeated together.               *)
(***************************************************************************)
C24_OutcomeMatchesHealths ==
    /\ outcome = "WIN" <=> alive_count = 0
    /\ outcome = "LOSE" <=> player.current_health <= 0
    /\ outcome = "None" => (alive_count >= 1 /\ player.current_health > 0)
    /\ ~(player.current_health <= 0 /\ alive_count = 0)

\* an area special has defeated two of three opponents and the counterattack
\* of the third has defeated the player
C24_Witness ==
    /\ outcome = "LOSE"
    /\ Len(enemies) = 3
    /\ alive_count = 1
    /\ player.current_health <= 0
    /\ player.special_uses = 0
    /\ Len(popups) = 4

(***************************************************************************)
(* C25  After an attack in which the targeted opponent survives,           *)
(* target_index still designates that same opponent: the creature at       *)
(* position target_index of the alive view is the one that was there       *)
(* before the attack.                                                      *)
(***************************************************************************)
C25_TargetDoesNotDrift ==
    [][ ( /\ enemies' # enemies
          /\ target_index < alive_count
          /\ enemies'[nth_alive(enemies, target_index)].current_health > 0 )
        => nth_alive(enemies', target_index') = nth_alive(enemies, target_index)
      ]_vars

(***************************************************************************)
(* C26  After an attack that defeats some but not all opponents,           *)
(* target_index is min(previous target_index, alive count - 1); an attack  *)
(* that defeats no opponent leaves target_index unchanged; an attack never *)
(* increases target_index.                                                 *)
(***************************************************************************)
C26_AttackClampsTarget ==
    [][ enemies' # enemies =>
          /\ target_index' <= target_index
          /\ alive_set(enemies') = alive_set(enemies) =>
                 target_index' = target_index
          /\ (alive_set(enemies') # alive_set(enemies)
                /\ alive_set(enemies') # {}) =>
                 target_index' =
                     Min(target_index, Cardinality(alive_set(enemies')) - 1)
      ]_vars

\* the last of three opponents was the target when an area special defeated
\* the other two: it is now at position 0 of the alive view
C26_Witness ==
    /\ outcome = "None"
    /\ Len(enemies) = 3
    /\ alive_set(enemies) = {3}
    /\ target_index = 0
    /\ Len(popups) = 4
    /\ \A k \in 1 .. 4 : fresh(popups[k])
    /\ \A k \in 1 .. 3 : is_hit(popups[k])


(***************************************************************************)
(* C27  After every accepted attack in which a counterattack is resolved,  *)
(* message reports the damage the player dealt (the one damage value, or   *)
(* the sum over all targets of an area special) and the damage of the      *)
(* counterattack, also when that counterattack defeats the player.         *)
(***************************************************************************)
RECURSIVE health_sum(_)
health_sum(es) ==
    IF es = << >> THEN 0 ELSE Head(es).current_health + health_sum(Tail(es))

C27_MessageReportsBothHalves ==
    [][ player'.current_health < player.current_health =>
          /\ Len(message') = 5
          /\ message'[2] = health_sum(enemies) - health_sum(enemies')
          /\ message'[4] = player.current_health - player'.current_health
      ]_vars

(***************************************************************************)
(* C28  With every damage_min >= 1, every accepted attack strictly         *)
(* decreases the current_health of at least one live opponent, and a       *)
(* player who keeps issuing attack intents reaches WIN or LOSE: no run of  *)
(* the session in which attacks keep coming stays undecided for ever.      *)
(***************************************************************************)
C28_AttacksEndTheSession ==
    /\ [] ( /\ player.damage_min >= 1
            /\ \A i \in 1 .. Len(enemies) : enemies[i].damage_min >= 1 )
    /\ [][ ( /\ outcome = "None"
             /\ player.special_uses > 0 \/ message' # <<"No special uses left!">>
             /\ BasicAttackIntent \/ SpecialAttackIntent )
           => \E i \in alive_set(enemies) :
                  enemies'[i].current_health < enemies[i].current_health
         ]_vars
    /\ <>(outcome # "None")

\* a level-2 opponent fell to the special attack and one basic attack, with
\* one counterattack in between
C28_Witness ==
    /\ outcome = "WIN"
    /\ Len(enemies) = 1
    /\ enemies[1].level = 2
    /\ enemies[1].current_health <= 0
    /\ player.special_uses = 0
    /\ player.current_health < player.max_health
    /\ Len(popups) = 3

(***************************************************************************)
(* C29  The feedback events are kept in creation order: an attack appends  *)
(* its events behind the pending ones, the opponent events first, in the   *)
(* order of the alive view, and the counterattack event last; update(dt)   *)
(* removes expired events and leaves the others in their order.            *)
(***************************************************************************)
\* the opponents damaged by a step, and the k-th of them in list order
damaged == { i \in 1 .. Len(enemies) :
               enemies'[i].current_health < enemies[i].current_health }
kth_damaged(k) ==
    CHOOSE i \in damaged : Cardinality({ x \in damaged : x < i }) = k - 1

C29_FeedbackInCreationOrder ==
    [][ /\ enemies' # enemies =>
            /\ appends
            /\ Len(appended) \in { Cardinality(damaged), Cardinality(damaged) + 1 }
            /\ \A k \in 1 .. Cardinality(damaged) :
                  /\ is_hit(appended[k])
                  /\ appended[k].text =
                         <<"-", enemies[kth_damaged(k)].current_health
                                  - enemies'[kth_damaged(k)].current_health>>
                  /\ Cardinality(damaged) > 1 =>
                         appended[k].pos = popup_anchor(enemy_positions[k])
            /\ Len(appended) = Cardinality(damaged) + 1 =>
                   is_counter(appended[Len(appended)])
        /\ (enemies' = enemies /\ popups' # popups) =>
            \E m \in 0 .. Len(popups) :
               /\ Len(popups') = Len(popups) - m
               /\ \A i \in 1 .. Len(popups') :
                     /\ popups'[i].text = popups[i + m].text
                     /\ popups'[i].color = popups[i + m].color
                     /\ popups'[i].pos[1] = popups[i + m].pos[1]
      ]_vars

\* the events of an area special on three opponents, aged by an update: the
\* three opponent events in the order of their slots, then the counterattack
C29_Witness ==
    /\ Len(popups) = 4
    /\ \A k \in 1 .. 4 : ~fresh(popups[k])
    /\ \A k \in 1 .. 3 :
          /\ is_hit(popups[k])
          /\ popups[k].pos[1] = popup_anchor(positions_for(3)[k])[1]
    /\ is_counter(popups[4])
    /\ popups[1].text # popups[2].text

(***************************************************************************)
(* C30  max_special_uses is 1 and is never changed, so at most one special *)
(* attack applies damage in a Battle: special_uses changes only from 1 to  *)
(* 0, and every special intent after that is rejected without damage.      *)
(***************************************************************************)
C30_OneSpecialPerEncounter ==
    /\ [] ( player.max_special_uses = 1 )
    /\ [][ /\ player'.special_uses # player.special_uses =>
               (player.special_uses = 1 /\ player'.special_uses = 0)
           /\ (player.special_uses = 0 /\ SpecialAttackIntent) =>
               (enemies' = enemies /\ player' = player /\ popups' = popups
                  /\ outcome' = outcome)
         ]_vars

\* the special attack was used on two opponents, its events have expired,
\* and a second special intent was refused
C30_Witness ==
    /\ message = <<"No special uses left!">>
    /\ outcome = "None"
    /\ player.special_uses = 0
    /\ player.max_special_uses = 1
    /\ Len(enemies) = 2
    /\ \A i \in 1 .. 2 : enemies[i].current_health < enemies[i].max_health
    /\ popups = << >>

(***************************************************************************)
(* C31  For every non-negative basic roll b the special damage computed    *)
(* from b is strictly greater than b, and it is non-decreasing in b: no    *)
(* smaller roll gives a larger special damage than the roll that was drawn. *)
(***************************************************************************)
C31_SpecialStrongerAndMonotone ==
    unit.method = "roll_special_damage" =>
        /\ unit.result > unit.amount
        /\ \A b \in 0 .. unit.amount :
               /\ special_of(b) > b
               /\ special_of(b) <= unit.result

\* the largest roll of a level-1 creature with PLAYER_STATS, 18, gave 30
C31_Witness ==
    /\ unit.method = "roll_special_damage"
    /\ unit.self.level = 1
    /\ unit.self.damage_max = PLAYER_STATS.base_dmg_max
    /\ unit.amount = unit.self.damage_max
    /\ unit.result = 30
    /\ unit.result > special_of(unit.amount - 1)

(***************************************************************************)
(* C32  With the game's stat tuning and opponents created at the player's  *)
(* level, the player's largest special damage is strictly less than the    *)
(* max_health of every opponent of the encounter, normal enemy or boss, so *)
(* a special attack on opponents at full health defeats none of them.      *)
(***************************************************************************)
C32_SpecialIsNoOneShot ==
    /\ [] ( game.state = "BATTLE" =>
              \A i \in 1 .. Len(enemies) :
                  /\ enemies[i].level = player.level
                  /\ special_of(player.damage_max) < enemies[i].max_health )
    /\ [][ ( /\ player'.special_uses < player.special_uses
             /\ \A i \in 1 .. Len(enemies) : at_full_health(enemies[i]) )
           => /\ outcome' # "WIN"
              /\ \A i \in 1 .. Len(enemies) :
                     /\ enemies'[i].current_health > 0
                     /\ enemies'[i].current_health
                            < enemies[i].current_health
         ]_vars

\* a level-4 player rolled 26, its largest roll, against a boss: the special
\* took 41 of the boss's 222 health
C32_Witness ==
    /\ game.state = "BATTLE"
    /\ game.last_battle_was_boss
    /\ player.level = 4
    /\ player.special_uses = 0
    /\ Len(enemies) = 1
    /\ enemies[1].max_health = 222
    /\ enemies[1].current_health = 222 - special_of(player.damage_max)
    /\ special_of(player.damage_max) = 41

(***************************************************************************)
(* C33  The game leaves STATE_BATTLE only through the battle's outcome:     *)
(* while outcome is None it stays in STATE_BATTLE, the update that finds    *)
(* outcome WIN moves it to STATE_WIN and the one that finds LOSE to         *)
(* STATE_LOSE, and these states are entered in no other way.  STATE_BATTLE  *)
(* is entered only from STATE_MAP, by the move that starts a battle.  An    *)
(* event handled by the Battle never changes the game.                      *)
(***************************************************************************)
C33_BattleLeftOnlyByOutcome ==
    [][ /\ (game.state = "BATTLE" /\ game'.state # "BATTLE") =>
               /\ outcome \in {"WIN", "LOSE"}
               /\ game'.state = outcome
               /\ outcome' = outcome
        /\ (game.state = "BATTLE" /\ outcome = "None") =>
               game'.state = "BATTLE"
        /\ (game.state = "BATTLE" /\ outcome # "None" /\ GameUpdate) =>
               game'.state = outcome
        /\ (game.state # game'.state /\ game'.state \in {"WIN", "LOSE"}) =>
               game.state = "BATTLE"
        /\ (game.state # "BATTLE" /\ game'.state = "BATTLE") =>
               /\ game.state = "MAP"
               /\ _handle_map_event
        /\ (game.state = "BATTLE" /\ game' # game) =>
               (enemies' = enemies /\ outcome' = outcome
                  /\ target_index' = target_index /\ message' = message)
      ]_vars

\* the second battle of a run was lost and the game has moved to STATE_LOSE
C33_Witness ==
    /\ game.state = "LOSE"
    /\ outcome = "LOSE"
    /\ game.battles_won = 1
    /\ player.current_health <= 0
    /\ \E i \in 1 .. Len(enemies) : enemies[i].current_health > 0

(***************************************************************************)
(* C34  Whenever a player creature exists, player.level = battles_won + 1.  *)
(* The follow-up of a won battle raises the level and battles_won by 1,     *)
(* once per battle; a lost battle changes neither; going back to the        *)
(* selection or restarting after a loss leaves 0 wins and no player or a    *)
(* player of level 1, and the selection creates a player of level 1.        *)
(***************************************************************************)
C34_LevelCountsWins ==
    /\ [] ( player # NoCreature => player.level = game.battles_won + 1 )
    /\ [][ /\ (game.state = "BATTLE" /\ game'.state = "WIN") =>
                 /\ player'.level = player.level + 1
                 /\ game'.battles_won = game.battles_won + 1
           /\ (game.state = "BATTLE" /\ game'.state # "WIN") =>
                 /\ player'.level = player.level
                 /\ game'.battles_won = game.battles_won
           /\ (game.state = "WIN") =>
                 /\ player'.level = player.level
                 /\ game'.battles_won = game.battles_won
           /\ (game.state = "LOSE" /\ game' # game) =>
                 /\ game'.battles_won = 0
                 /\ player' = NoCreature \/ player'.level = 1
           /\ (game.state = "SELECTION" /\ game' # game) =>
                 /\ player'.level = 1
                 /\ game'.battles_won = 0
         ]_vars

\* two battles won in a row: the player is at level 3 on the win screen
C34_Witness ==
    /\ game.state = "WIN"
    /\ game.battles_won = 2
    /\ player.level = 3
    /\ outcome = "WIN"

(***************************************************************************)
(* C35  Whenever outcome is undecided, enemy_positions has as many entries *)
(* as opponents are alive, and target_index is the index of one of them;   *)
(* no attack, on any sequence of attacks and target selections, looks up   *)
(* enemy_positions outside its range (no exception is raised).             *)
(***************************************************************************)
C35_PositionsMatchAliveView ==
    /\ ~raised
    /\ outcome = "None" =>
          /\ Len(enemy_positions) = alive_count
          /\ enemy_positions = positions_for(alive_count)
          /\ target_index \in 0 .. Len(enemy_positions) - 1

\* one of three opponents has fallen: two positions are left, and the last
\* of them is the target
C35_Witness ==
    /\ outcome = "None"
    /\ Len(enemies) = 3
    /\ alive_count = 2
    /\ Len(enemy_positions) = 2
    /\ target_index = 1
    /\ enemy_positions # SubSeq(positions_for(3), 1, 2)

=============================================================================
